---- MODULE Spec2Model ----
(***************************************************************************)
(* Model of the four command-line scripts of the video-intelligence        *)
(* pipeline: document ingestion (doc_ingest_chunk_embed.py), live context  *)
(* (live_context_box.py), adversarial analysis (adversarial_analysis.py)   *)
(* and transcription (transcribe_diarize.py).                              *)
(*                                                                         *)
(* A text is a sequence of one-character strings.  Every script is a       *)
(* sequential program; its position is the pc field of its record.  The    *)
(* external services (OpenAI, Supabase, the speech libraries) answer       *)
(* nondeterministically.                                                   *)
(***************************************************************************)
EXTENDS Integers, Sequences, FiniteSets, TLC

VARIABLES ct, kw, ing, live, adv, trn

vars == <<ct, kw, ing, live, adv, trn>>

\* A record of a script (or call) that does not run in this specification.
Idle == [pc |-> "idle"]

Min(a, b) == IF a < b THEN a ELSE b

\* A script's note of a failure of something outside it (a missing credential
\* or key, a refused or failed request, a missing library) and of what the
\* code did about it: printed a message and exited ("print_exit"), printed a
\* message and went on ("print_continue"), went on without a message about
\* it ("silent"), or let the exception through ("uncaught").
Failed(r, what, handling) ==
    [r EXCEPT !.failures = Append(@, [failure |-> what, handling |-> handling])]

\* ------------------------------------------------------------------ bounds

\* Longest text handed to chunk_text on its own.
MaxTextLen == 5
\* Largest chunk_size tried for chunk_text on its own.
MaxChunkSize == 3

\* ------------------------------------------------------- strings of Python

\* Characters str.split() treats as whitespace (those the texts here use).
IsSpace(c) == c \in {" ", "\n", "\t"}

\* Python's seq[lo:hi] for 0 <= lo: the elements at 0-based positions lo..hi-1,
\* cut at the end of the sequence.
Slice(seq, lo, hi) == SubSeq(seq, lo + 1, Min(hi, Len(seq)))

\* text.split(): the maximal runs of non-whitespace characters, in order.
\* Computed by halving the text; a run may continue across the cut.
RECURSIVE SplitRange(_, _, _)
SplitRange(text, lo, hi) ==
    IF lo > hi THEN <<>>
    ELSE IF lo = hi THEN (IF IsSpace(text[lo]) THEN <<>> ELSE << <<text[lo]>> >>)
    ELSE LET mid == (lo + hi) \div 2
             L == SplitRange(text, lo, mid)
             R == SplitRange(text, mid + 1, hi)
         IN  IF IsSpace(text[mid]) \/ IsSpace(text[mid + 1])
             THEN L \o R
             ELSE SubSeq(L, 1, Len(L) - 1) \o <<L[Len(L)] \o R[1]>> \o Tail(R)

Split(text) == SplitRange(text, 1, Len(text))

\* sep.join(parts), by halving the list.
RECURSIVE JoinRange(_, _, _, _)
JoinRange(sep, parts, lo, hi) ==
    IF lo > hi THEN <<>>
    ELSE IF lo = hi THEN parts[lo]
    ELSE LET mid == (lo + hi) \div 2
         IN  JoinRange(sep, parts, lo, mid) \o sep \o JoinRange(sep, parts, mid + 1, hi)

Join(sep, parts) == JoinRange(sep, parts, 1, Len(parts))

\* ------------------------------------------------------------- chunk_text

\* Defaults of chunk_text's parameters.
DefaultChunkSize == 500
DefaultOverlap == 50

\* end = start
ChunkEndAtStart(start, chunk_size) == start

\* end = start + chunk_size
ChunkEnd(start, chunk_size) == start + chunk_size

\* chunk = " ".join(words[start:end])
ChunkNoEndCut(words, start, end) == Join(<<" ">>, SubSeq(words, start + 1, Len(words)))
ChunkOf(words, start, end) == Join(<<" ">>, Slice(words, start, end))

\* start = end - overlap
ChunkNoOverlap(end, overlap) == end
ChunkNextStart(end, overlap) == end - overlap

\* The whole loop of chunk_text from a given start, as one evaluation.
RECURSIVE ChunkLoop(_, _, _, _, _)
ChunkLoop(words, chunks, start, chunk_size, overlap) ==
    IF start < Len(words)
    THEN LET end == ChunkEnd(start, chunk_size)
         IN  ChunkLoop(words, Append(chunks, ChunkOf(words, start, end)),
                       ChunkNextStart(end, overlap), chunk_size, overlap)
    ELSE chunks

chunk_text(text, chunk_size, overlap) ==
    ChunkLoop(Split(text), <<>>, 0, chunk_size, overlap)

\* chunk_text on its own, one loop iteration per step.
ChunkAlphabet == {"a", "b", " ", "\n"}

ChunkTexts == UNION {[1..n -> ChunkAlphabet] : n \in 0..MaxTextLen}

InitChunk ==
    /\ kw = Idle /\ ing = Idle /\ live = Idle /\ adv = Idle /\ trn = Idle
    /\ \E text \in ChunkTexts, chunk_size \in 1..MaxChunkSize :
         \E overlap \in 0..(chunk_size - 1) :
           ct = [pc |-> "call", text |-> text, chunk_size |-> chunk_size,
                 overlap |-> overlap, words |-> <<>>, chunks |-> <<>>, start |-> 0]

ChunkSplit ==
    /\ ct.pc = "call"
    /\ ct' = [ct EXCEPT !.pc = "loop", !.words = Split(ct.text),
                        !.chunks = <<>>, !.start = 0]
    /\ UNCHANGED <<kw, ing, live, adv, trn>>

ChunkIterate ==
    /\ ct.pc = "loop"
    /\ ct.start < Len(ct.words)
    /\ LET end == ChunkEnd(ct.start, ct.chunk_size)
       IN  ct' = [ct EXCEPT !.chunks = Append(@, ChunkOf(ct.words, ct.start, end)),
                            !.start = ChunkNextStart(end, ct.overlap)]
    /\ UNCHANGED <<kw, ing, live, adv, trn>>

ChunkReturn ==
    /\ ct.pc = "loop"
    /\ ~(ct.start < Len(ct.words))
    /\ ct' = [ct EXCEPT !.pc = "done"]
    /\ UNCHANGED <<kw, ing, live, adv, trn>>

NextChunk == ChunkSplit \/ ChunkIterate \/ ChunkReturn

SpecChunk == InitChunk /\ [][NextChunk]_vars

\* ======================================================= chunk_text: claims

\* Number of words of a chunk, counted as the claim counts them.
WordCount(chunk) == Len(Split(chunk))

\* ceil(a / b) for a >= 0, b > 0.
CeilDiv(a, b) == (a + b - 1) \div b

\* C1 as stated: every chunk chunk_text returns, other than the last one, has
\* exactly chunk_size words, and the last one has between 1 and chunk_size.
C1_AllButLastAreFull ==
    ct.pc = "done" =>
        LET m == Len(ct.chunks)
        IN  /\ \A k \in 1..(m - 1) : WordCount(ct.chunks[k]) = ct.chunk_size
            /\ m > 0 => WordCount(ct.chunks[m]) \in 1..ct.chunk_size

\* C1 as amended: a chunk other than the last has at least
\* min(chunk_size, chunk_size - overlap + 1) and at most chunk_size words, and
\* exactly chunk_size when its range ends inside the text (always so when
\* overlap = 0); the last chunk has between 1 and chunk_size words.
C1_ChunkSizes ==
    ct.pc = "done" =>
        LET m == Len(ct.chunks)
            n == Len(Split(ct.text))
            s == ct.chunk_size - ct.overlap
        IN  /\ \A k \in 1..(m - 1) :
                 /\ WordCount(ct.chunks[k]) >= Min(ct.chunk_size, s + 1)
                 /\ WordCount(ct.chunks[k]) <= ct.chunk_size
                 /\ ct.overlap = 0 => WordCount(ct.chunks[k]) = ct.chunk_size
            /\ \A k \in 1..m :
                 (k - 1) * s + ct.chunk_size <= n
                     => WordCount(ct.chunks[k]) = ct.chunk_size
            /\ m > 0 => WordCount(ct.chunks[m]) \in 1..ct.chunk_size

\* A finished call with a chunk before the last one that is shorter than
\* chunk_size.
C1_Witness ==
    /\ ct.pc = "done"
    /\ \E k \in 1..(Len(ct.chunks) - 1) : WordCount(ct.chunks[k]) < ct.chunk_size

\* C2: with s = chunk_size - overlap and n the number of words, chunk k
\* (from 0) is the word range [k*s, min(k*s + chunk_size, n)) in input order,
\* there are ceil(n / s) chunks, and every word position is in some chunk.
C2_ChunkRanges ==
    ct.pc = "done" =>
        LET w == Split(ct.text)
            n == Len(w)
            s == ct.chunk_size - ct.overlap
            lo(k) == k * s
            hi(k) == Min(k * s + ct.chunk_size, n)
        IN  /\ Len(ct.chunks) = CeilDiv(n, s)
            /\ \A k \in 0..(Len(ct.chunks) - 1) :
                 /\ ct.chunks[k + 1] = Join(<<" ">>, SubSeq(w, lo(k) + 1, hi(k)))
                 /\ Split(ct.chunks[k + 1]) = SubSeq(w, lo(k) + 1, hi(k))
            /\ \A p \in 0..(n - 1) :
                 \E k \in 0..(Len(ct.chunks) - 1) : lo(k) <= p /\ p < hi(k)

\* A finished call with overlapping chunks, the last one cut by the end of the
\* text, over words that differ.
C2_Witness ==
    /\ ct.pc = "done"
    /\ ct.overlap > 0
    /\ Len(ct.chunks) >= 2
    /\ WordCount(ct.chunks[Len(ct.chunks)]) < ct.chunk_size
    /\ \E i, j \in 1..Len(ct.words) : ct.words[i] # ct.words[j]

\* ======================================================== extract_keywords

UpperLetters == <<"A","B","C","D","E","F","G","H","I","J","K","L","M",
                  "N","O","P","Q","R","S","T","U","V","W","X","Y","Z">>
LowerLetters == <<"a","b","c","d","e","f","g","h","i","j","k","l","m",
                  "n","o","p","q","r","s","t","u","v","w","x","y","z">>

IsUpper(c) == \E i \in 1..26 : UpperLetters[i] = c
IsLower(c) == \E i \in 1..26 : LowerLetters[i] = c

\* [a-zA-Z]
IsAsciiLetter(c) == IsUpper(c) \/ IsLower(c)

\* \w of the regular expression: letters, digits and the underscore.
IsWordChar(c) ==
    IsAsciiLetter(c) \/ c \in {"0","1","2","3","4","5","6","7","8","9","_"}

\* text.lower()
LowerChar(c) == IF IsUpper(c) THEN LowerLetters[CHOOSE i \in 1..26 : UpperLetters[i] = c] ELSE c
ToLower(text) == [i \in 1..Len(text) |-> LowerChar(text[i])]

\* The stopword list of extract_keywords.
stopwords == {
    <<"t","h","e">>, <<"a">>, <<"a","n">>, <<"i","s">>, <<"a","r","e">>, <<"w","a","s">>,
    <<"w","e","r","e">>, <<"b","e">>, <<"b","e","e","n">>, <<"b","e","i","n","g">>,
    <<"h","a","v","e">>, <<"h","a","s">>, <<"h","a","d">>, <<"d","o">>, <<"d","o","e","s">>,
    <<"d","i","d">>, <<"w","i","l","l">>, <<"w","o","u","l","d">>, <<"c","o","u","l","d">>,
    <<"s","h","o","u","l","d">>, <<"m","a","y">>, <<"m","i","g","h","t">>, <<"c","a","n">>,
    <<"m","u","s","t">>, <<"s","h","a","l","l">>, <<"t","o">>, <<"o","f">>, <<"i","n">>,
    <<"f","o","r">>, <<"o","n">>, <<"w","i","t","h">>, <<"a","t">>, <<"b","y">>,
    <<"f","r","o","m">>, <<"a","s">>, <<"i","n","t","o">>, <<"t","h","r","o","u","g","h">>,
    <<"d","u","r","i","n","g">>, <<"b","e","f","o","r","e">>, <<"a","f","t","e","r">>,
    <<"a","b","o","v","e">>, <<"b","e","l","o","w">>, <<"b","e","t","w","e","e","n">>,
    <<"u","n","d","e","r">>, <<"a","g","a","i","n">>, <<"f","u","r","t","h","e","r">>,
    <<"t","h","e","n">>, <<"o","n","c","e">>, <<"h","e","r","e">>, <<"t","h","e","r","e">>,
    <<"w","h","e","n">>, <<"w","h","e","r","e">>, <<"w","h","y">>, <<"h","o","w">>,
    <<"a","l","l">>, <<"e","a","c","h">>, <<"f","e","w">>, <<"m","o","r","e">>,
    <<"m","o","s","t">>, <<"o","t","h","e","r">>, <<"s","o","m","e">>, <<"s","u","c","h">>,
    <<"n","o">>, <<"n","o","r">>, <<"n","o","t">>, <<"o","n","l","y">>, <<"o","w","n">>,
    <<"s","a","m","e">>, <<"s","o">>, <<"t","h","a","n">>, <<"t","o","o">>,
    <<"v","e","r","y">>, <<"j","u","s","t">>, <<"a","n","d">>, <<"b","u","t">>, <<"i","f">>,
    <<"o","r">>, <<"b","e","c","a","u","s","e">>, <<"u","n","t","i","l">>,
    <<"w","h","i","l","e">>, <<"t","h","i","s">>, <<"t","h","a","t">>, <<"t","h","e","s","e">>,
    <<"t","h","o","s","e">>, <<"i">>, <<"y","o","u">>, <<"h","e">>, <<"s","h","e">>,
    <<"i","t">>, <<"w","e">>, <<"t","h","e","y">>, <<"w","h","a","t">>,
    <<"w","h","i","c","h">>, <<"w","h","o">>, <<"w","h","o","m">>, <<"i","t","s">>,
    <<"h","i","s">>, <<"h","e","r">>, <<"t","h","e","i","r">>, <<"o","u","r">>, <<"m","y">>,
    <<"y","o","u","r">>, <<"u","p">>, <<"o","u","t">>, <<"a","b","o","u","t">>,
    <<"o","v","e","r">>
}

\* The maximal runs of \w characters of text, in order: a match of
\* \b...\b starts and ends at the two ends of such a run.
RECURSIVE WordRuns(_, _, _, _)
WordRuns(text, i, cur, acc) ==
    IF i > Len(text) THEN (IF cur = <<>> THEN acc ELSE Append(acc, cur))
    ELSE IF IsWordChar(text[i]) THEN WordRuns(text, i + 1, Append(cur, text[i]), acc)
    ELSE WordRuns(text, i + 1, <<>>, IF cur = <<>> THEN acc ELSE Append(acc, cur))

\* [a-zA-Z]{3,} over a whole run.
MinWordLen == 3
RunMatches(run) == Len(run) >= MinWordLen /\ \A i \in 1..Len(run) : IsAsciiLetter(run[i])

\* re.findall(r'\b[a-zA-Z]{3,}\b', text.lower())
FindWords(text) == SelectSeq(WordRuns(ToLower(text), 1, <<>>, <<>>), RunMatches)

\* [w for w in words if w not in stopwords]
NotStopword(w) == w \notin stopwords
Filtered(words) == SelectSeq(words, NotStopword)

\* The keys of freq in insertion order: the distinct words by first occurrence.
RECURSIVE FreqKeys(_, _, _)
FreqKeys(filtered, i, keys) ==
    IF i > Len(filtered) THEN keys
    ELSE FreqKeys(filtered, i + 1,
                  IF \E j \in 1..Len(keys) : keys[j] = filtered[i]
                  THEN keys ELSE Append(keys, filtered[i]))

\* freq[w]
Freq(filtered, w) == Cardinality({i \in 1..Len(filtered) : filtered[i] = w})

\* Whether item b must come before item a when b arrives after a:
\* sorted(..., key=count, reverse=True) is stable, so only for a larger count.
SortsBeforeAscending(filtered, b, a) == Freq(filtered, b) < Freq(filtered, a)
SortsBefore(filtered, b, a) == Freq(filtered, b) > Freq(filtered, a)

\* sorted(freq.items(), key=lambda x: x[1], reverse=True), by insertion.
RECURSIVE SortedWords(_, _, _, _)
SortedWords(filtered, keys, i, out) ==
    IF i > Len(keys) THEN out
    ELSE LET w == keys[i]
             p == Cardinality({j \in 1..Len(out) : ~SortsBefore(filtered, w, out[j])})
         IN  SortedWords(filtered, keys, i + 1,
                         SubSeq(out, 1, p) \o <<w>> \o SubSeq(out, p + 1, Len(out)))

DefaultMaxKeywords == 5

extract_keywords(text, max_keywords) ==
    LET words    == FindWords(text)
        filtered == Filtered(words)
        sorted_words == SortedWords(filtered, FreqKeys(filtered, 1, <<>>), 1, <<>>)
    IN  Slice(sorted_words, 0, max_keywords)

\* extract_keywords on its own.  A text is built from pieces: two words
\* followed by a space, one of them in upper case, a stopword followed by a
\* space, letters that glue to what follows, and a digit.
MaxPieces == 4

KwPieces == {<<"a","b","c"," ">>, <<"A","B","D"," ">>, <<"t","h","e"," ">>,
             <<"a","b">>, <<"c","d","e">>, <<"1">>}

KwTexts == {Join(<<>>, ps) : ps \in UNION {[1..n -> KwPieces] : n \in 0..MaxPieces}}

KwMaxKeywords == {0, 1, 2, DefaultMaxKeywords}

InitKw ==
    /\ ct = Idle /\ ing = Idle /\ live = Idle /\ adv = Idle /\ trn = Idle
    /\ \E text \in KwTexts, max_keywords \in KwMaxKeywords :
           kw = [pc |-> "call", text |-> text, max_keywords |-> max_keywords,
                 result |-> <<>>]

KwExtract ==
    /\ kw.pc = "call"
    /\ kw' = [kw EXCEPT !.pc = "done",
                        !.result = extract_keywords(kw.text, kw.max_keywords)]
    /\ UNCHANGED <<ct, ing, live, adv, trn>>

NextKw == KwExtract

SpecKw == InitKw /\ [][NextKw]_vars

\* ================================================ extract_keywords: claims

\* Occurrences of word w in text: the \b-delimited runs of letters of the
\* lower-cased text equal to w.
Occurrences(text, w) ==
    LET runs == WordRuns(ToLower(text), 1, <<>>, <<>>)
    IN  Cardinality({i \in 1..Len(runs) : runs[i] = w})

\* Position of the first occurrence of w among the runs of text (0: none).
FirstOccurrence(text, w) ==
    LET runs == WordRuns(ToLower(text), 1, <<>>, <<>>)
        at   == {i \in 1..Len(runs) : runs[i] = w}
    IN  IF at = {} THEN 0 ELSE CHOOSE i \in at : \A j \in at : i <= j

\* A word extract_keywords may return: at least 3 ASCII letters, lower case,
\* not a stopword.
Eligible(w) ==
    /\ Len(w) >= 3
    /\ \A i \in 1..Len(w) : IsLower(w[i])
    /\ w \notin stopwords

\* C8: extract_keywords returns at most max_keywords distinct lower-cased
\* words of the text, each of at least 3 ASCII letters and no stopword, by
\* non-increasing occurrence count, ties in order of first occurrence, and no
\* omitted eligible word has a strictly higher count than a returned one.
C8_KeywordsByFrequency ==
    kw.pc = "done" =>
        LET r == kw.result
            t == kw.text
            runs == WordRuns(ToLower(t), 1, <<>>, <<>>)
        IN  /\ Len(r) <= kw.max_keywords
            /\ \A i, j \in 1..Len(r) : i # j => r[i] # r[j]
            /\ \A i \in 1..Len(r) : Eligible(r[i]) /\ Occurrences(t, r[i]) >= 1
            /\ \A i, j \in 1..Len(r) :
                 i < j =>
                    /\ Occurrences(t, r[i]) >= Occurrences(t, r[j])
                    /\ Occurrences(t, r[i]) = Occurrences(t, r[j])
                         => FirstOccurrence(t, r[i]) < FirstOccurrence(t, r[j])
            /\ \A i \in 1..Len(r), k \in 1..Len(runs) :
                 (Eligible(runs[k]) /\ \A j \in 1..Len(r) : r[j] # runs[k])
                     => Occurrences(t, runs[k]) <= Occurrences(t, r[i])

\* A finished call that returned two words in count order, the more frequent
\* one occurring later in the text, and that left out a stopword.
C8_Witness ==
    /\ kw.pc = "done"
    /\ Len(kw.result) = 2
    /\ Occurrences(kw.text, kw.result[1]) > Occurrences(kw.text, kw.result[2])
    /\ FirstOccurrence(kw.text, kw.result[1]) > FirstOccurrence(kw.text, kw.result[2])

\* ================================== doc_ingest_chunk_embed.py (ingestion)

\* Most embeddings the embeddings API is taken to return for one request.
MaxEmbeddings == 4

\* Word counts of the documents ingested: with the default chunk_size 500 and
\* overlap 50 they give 0, 1, 2 and 3 chunks.
DocWordCounts == {0, 1, 451, 901}

\* A document of n one-letter words separated by single spaces.
DocText(n) == [i \in 1..(IF n = 0 THEN 0 ELSE 2 * n - 1) |-> IF i % 2 = 1 THEN "w" ELSE " "]

FileExts == {".txt", ".pdf", ".docx"}

\* HTTP statuses an insert is answered with: created, or a server error.
InsertStatuses == {201, 500}

\* response.status_code not in [200, 201, 204]
InsertAccepted(status) == status \in {200, 201, 204}

\* print(...) to standard output / to standard error, and sys.exit(code).
IngPrint(r, msg) == [r EXCEPT !.stdout = Append(@, msg)]
IngPrintErr(r, msg) == [r EXCEPT !.stderr = Append(@, msg)]
IngExit(r, code) == [r EXCEPT !.pc = "exited", !.exit = code]

\* A failure answered by a message on standard output and sys.exit(1).
IngFatal(r, what) == IngExit(IngPrint(Failed(r, what, "print_exit"), <<what, 0>>), 1)

\* Start of the script: the environment is read when the module is loaded.
InitIng ==
    /\ ct = Idle /\ kw = Idle /\ live = Idle /\ adv = Idle /\ trn = Idle
    /\ \E key \in BOOLEAN, creds \in BOOLEAN, exists \in BOOLEAN,
          ext \in FileExts, n \in DocWordCounts :
           ing = [pc |-> "main",
                  OPENAI_API_KEY |-> key,      \* set and non-empty
                  SUPABASE |-> creds,          \* SUPABASE_URL and SUPABASE_KEY both set
                  file_exists |-> exists, ext |-> ext, file_text |-> DocText(n),
                  text |-> <<>>, chunks |-> <<>>, embeddings |-> <<>>, i |-> 0,
                  emb_requests |-> 0, emb_result |-> "none",
                  inserts |-> <<>>, failures |-> <<>>,
               stdout |-> <<>>, stderr |-> <<>>, exit |-> -1]

\* __main__: the file must exist.
IngMain ==
    /\ ing.pc = "main"
    /\ ing' = IF ing.file_exists
              THEN [ing EXCEPT !.pc = "extract"]
              ELSE IngExit(IngPrint(ing, <<"File not found", 0>>), 1)
    /\ UNCHANGED <<ct, kw, live, adv, trn>>

\* extract_text, after ingest_document's first progress line.
IngExtract ==
    /\ ing.pc = "extract"
    /\ LET r == IngPrintErr(ing, <<"Processing document", 0>>)
           got(text) == [IngPrintErr(r, <<"Extracted characters", Len(text)>>)
                            EXCEPT !.pc = "chunk", !.text = text]
       IN  \/ /\ ing.ext = ".txt"
              /\ ing' = got(ing.file_text)
           \/ /\ ing.ext = ".pdf"
              /\ \E pdfplumber \in BOOLEAN :
                    ing' = IF pdfplumber
                           THEN got(IF ing.file_text # <<>>
                                    THEN ing.file_text \o <<"\n">> ELSE <<>>)
                           ELSE IngFatal(r, "pdfplumber not installed")
           \/ /\ ing.ext \notin {".txt", ".pdf"}
              /\ ing' = IngExit(IngPrint(r, <<"Unsupported file type", 0>>), 1)
    /\ UNCHANGED <<ct, kw, live, adv, trn>>

\* chunks = chunk_text(text)
IngChunk ==
    /\ ing.pc = "chunk"
    /\ LET chunks == chunk_text(ing.text, DefaultChunkSize, DefaultOverlap)
       IN  ing' = [IngPrintErr(ing, <<"Created chunks", Len(chunks)>>)
                      EXCEPT !.pc = "embed", !.chunks = chunks]
    /\ UNCHANGED <<ct, kw, live, adv, trn>>

\* What the one embeddings request can come to: requests cannot be imported,
\* the request raises, raise_for_status raises, the body lacks "data", or a
\* list of embeddings arrives.
EmbedOutcomes == {"import_error", "raises", "http_error", "bad_body", "ok"}

\* The guard of get_embeddings: if not OPENAI_API_KEY.
EmbedKeyNotChecked(r) == FALSE
EmbedKeyMissing(r) == ~r.OPENAI_API_KEY

\* embeddings = get_embeddings(chunks)
IngEmbed ==
    /\ ing.pc = "embed"
    /\ LET r == IngPrintErr(ing, <<"Generating embeddings", 0>>)
       IN  \/ /\ EmbedKeyMissing(ing)
              /\ ing' = IngFatal(r, "OPENAI_API_KEY not set")
           \/ /\ ~EmbedKeyMissing(ing)
              /\ \E outcome \in EmbedOutcomes, m \in 0..MaxEmbeddings :
                    LET sent == [r EXCEPT !.emb_requests =
                                     IF outcome = "import_error" THEN @ ELSE @ + 1]
                    IN  IF outcome = "ok"
                        THEN ing' = [sent EXCEPT !.pc = "store", !.emb_result = "ok",
                                         \* item j is the embedding of input j
                                         !.embeddings = [j \in 1..m |-> j]]
                        ELSE /\ m = 0
                             /\ ing' = IngFatal([sent EXCEPT !.emb_result = "error"],
                                                 "Embedding API error")
    /\ UNCHANGED <<ct, kw, live, adv, trn>>

\* The except clause of store_chunks_in_supabase: the error goes to standard
\* error, then sys.exit(1).
IngStorageError(r) ==
    IngExit(IngPrintErr(Failed(r, "Supabase storage error", "print_exit"),
                        <<"Supabase storage error", 0>>), 1)

\* store_chunks_in_supabase, up to the loop.
IngStore ==
    /\ ing.pc = "store"
    /\ LET r == IngPrintErr(ing, <<"Storing in Supabase", 0>>)
       IN  \/ /\ ~ing.SUPABASE
              /\ ing' = IngFatal(r, "SUPABASE_URL or SUPABASE_KEY not set")
           \/ /\ ing.SUPABASE
              /\ \E requests \in BOOLEAN :
                    ing' = IF requests
                           THEN [r EXCEPT !.pc = "store_loop", !.i = 0]
                           ELSE IngStorageError(r)
    /\ UNCHANGED <<ct, kw, live, adv, trn>>

\* for i, (chunk, embedding) in enumerate(zip(chunks, embeddings))
ZipLen(chunks, embeddings) == Min(Len(chunks), Len(embeddings))

\* enumerate: the next iteration takes the next index, whatever the answer.
InsertRetryIndex(i, status) == IF InsertAccepted(status) THEN i + 1 ELSE i
InsertNextIndex(i, status) == i + 1

\* One iteration of the loop: one insert request.
IngInsert ==
    /\ ing.pc = "store_loop"
    /\ ing.i < ZipLen(ing.chunks, ing.embeddings)
    /\ LET row(status) == [chunk_index |-> ing.i, content |-> ing.chunks[ing.i + 1],
                           embedding |-> ing.embeddings[ing.i + 1], status |-> status]
       IN  \/ \E status \in InsertStatuses :
                 LET r == [ing EXCEPT !.inserts = Append(@, row(status)),
                                      !.i = InsertNextIndex(@, status)]
                 IN  ing' = IF InsertAccepted(status) THEN r
                            ELSE IngPrintErr(Failed(r, "insert refused", "print_continue"),
                                             <<"Failed to insert chunk", ing.i>>)
           \/ \* requests.post raises: caught by the except of the function
              ing' = IngStorageError([ing EXCEPT !.inserts = Append(@, row(0))])
    /\ UNCHANGED <<ct, kw, live, adv, trn>>

\* After the loop: the stored line, then ingest_document's result.
IngStored ==
    /\ ing.pc = "store_loop"
    /\ ~(ing.i < ZipLen(ing.chunks, ing.embeddings))
    /\ ing' = [IngPrintErr(ing, <<"Stored chunks in Supabase", Len(ing.chunks)>>)
                  EXCEPT !.pc = "report"]
    /\ UNCHANGED <<ct, kw, live, adv, trn>>

IngReport ==
    /\ ing.pc = "report"
    /\ ing' = [IngPrint(ing, <<"success", Len(ing.chunks)>>) EXCEPT !.pc = "done", !.exit = 0]
    /\ UNCHANGED <<ct, kw, live, adv, trn>>

NextIng ==
    IngMain \/ IngExtract \/ IngChunk \/ IngEmbed \/ IngStore \/ IngInsert
        \/ IngStored \/ IngReport

SpecIng == InitIng /\ [][NextIng]_vars

\* ============================================= ingestion script: claims

\* Position of the first line with this tag in a log (0: none).
FirstAt(log, tag) ==
    LET at == {k \in 1..Len(log) : log[k][1] = tag}
    IN  IF at = {} THEN 0 ELSE CHOOSE k \in at : \A j \in at : k <= j

Printed(log, tag) == FirstAt(log, tag) > 0

\* The progress lines of the four stages, in the order of the stages.
StageLines == <<"Extracted characters", "Created chunks", "Generating embeddings",
                "Storing in Supabase">>

\* C3: the stages run in the order extract, chunk, embed, store; no insert
\* request is issued before the one embeddings request has returned
\* successfully; with OPENAI_API_KEY missing or the embeddings request failed
\* the script ends with status 1, no insert request and no success output.
C3_StagesInOrder ==
    /\ \A s \in 2..Len(StageLines) :
         Printed(ing.stderr, StageLines[s])
             => /\ Printed(ing.stderr, StageLines[s - 1])
                /\ FirstAt(ing.stderr, StageLines[s - 1]) < FirstAt(ing.stderr, StageLines[s])
    /\ ing.pc # "idle" /\ ing.inserts # <<>>
         => /\ ing.emb_result = "ok" /\ ing.emb_requests = 1
            /\ Printed(ing.stderr, "Storing in Supabase")
    /\ ing.pc # "idle" /\ (~ing.OPENAI_API_KEY \/ ing.emb_result = "error")
         => /\ ing.inserts = <<>>
            /\ ~Printed(ing.stdout, "success")
            /\ ing.pc \notin {"store", "store_loop", "report", "done"}
            /\ ing.pc = "exited" => ing.exit = 1
    /\ ing.pc # "idle" /\ ~ing.OPENAI_API_KEY => ing.emb_requests = 0

\* The script has ended at the key check of get_embeddings, with chunks made.
C3_Witness ==
    /\ ing.pc = "exited" /\ ing.exit = 1
    /\ Printed(ing.stdout, "OPENAI_API_KEY not set")
    /\ Len(ing.chunks) >= 2
    /\ ing.inserts = <<>>

\* The insert requests the endpoint accepted.
AcceptedRows(r) == SelectSeq(r.inserts, LAMBDA row : InsertAccepted(row.status))

\* C10: when the script reports success with chunks_created = N, exactly N
\* rows were accepted by the insert endpoint, with chunk_index 0..N-1, each
\* with its own chunk and the embedding of that chunk.
C10_SuccessMeansStored ==
    ing.pc # "idle" =>
        \A k \in 1..Len(ing.stdout) :
            ing.stdout[k][1] = "success" =>
                LET n == ing.stdout[k][2]
                    acc == AcceptedRows(ing)
                IN  /\ Printed(ing.stderr, "Stored chunks in Supabase")
                    /\ Len(acc) = n
                    /\ \A j \in 1..Len(acc) :
                         /\ acc[j].chunk_index = j - 1
                         /\ acc[j].content = ing.chunks[j]
                         /\ acc[j].embedding = j

\* ======================================= live_context_box.py (live context)

\* Most segments of a transcript.
MaxSegments == 2

\* Texts of transcript segments: a blank one, one with two keywords and one
\* that is a stopword only.
SegTexts == {<<" ">>,
             <<"a","b","c"," ","A","B","D"," ","A","B","D">>,
             <<"t","h","e">>}

Transcripts == UNION {[1..n -> SegTexts] : n \in 0..MaxSegments}

\* Lists of matches the document store answers a search with.
MatchLists == {<<>>, <<0, 1>>}

\* text.strip() is empty
IsBlank(text) == \A i \in 1..Len(text) : IsSpace(text[i])

LivePrintErr(r, msg) == [r EXCEPT !.stderr = Append(@, msg)]

\* A request of the script, as the service saw it.
LiveRequest(r, kind, status) ==
    [r EXCEPT !.requests = Append(@, [seg |-> r.idx, kind |-> kind, status |-> status])]

InitLive ==
    /\ ct = Idle /\ kw = Idle /\ ing = Idle /\ adv = Idle /\ trn = Idle
    /\ \E key \in BOOLEAN, creds \in BOOLEAN, exists \in BOOLEAN,
          transcript \in Transcripts :
         live = [pc |-> "main",
                 OPENAI_API_KEY |-> key, SUPABASE |-> creds,
                 transcript_exists |-> exists, transcript |-> transcript,
                 segments |-> <<>>, idx |-> 0, keywords |-> <<>>,
                 matches |-> <<>>, requests |-> <<>>, failures |-> <<>>,
                 stdout |-> <<>>, stderr |-> <<>>, exit |-> -1]

\* __main__: the transcript must exist.
LiveMain ==
    /\ live.pc = "main"
    /\ live' = IF live.transcript_exists
               THEN [live EXCEPT !.pc = "load"]
               ELSE [live EXCEPT !.pc = "exited", !.exit = 1,
                                 !.stdout = Append(@, [error |-> "Transcript not found"])]
    /\ UNCHANGED <<ct, kw, ing, adv, trn>>

\* segments = load_transcript(transcript_path)
LiveLoad ==
    /\ live.pc = "load"
    /\ live' = [live EXCEPT !.pc = "loop", !.segments = live.transcript, !.idx = 0]
    /\ UNCHANGED <<ct, kw, ing, adv, trn>>

\* Head of the loop body: a blank segment is skipped, the keywords of another
\* are extracted.
LiveSegment ==
    /\ live.pc = "loop"
    /\ live.idx < Len(live.segments)
    /\ LET text == live.segments[live.idx + 1]
       IN  live' = IF IsBlank(text)
                   THEN [live EXCEPT !.idx = @ + 1]
                   ELSE [live EXCEPT !.pc = "embed", !.matches = <<>>,
                             !.keywords = extract_keywords(text, DefaultMaxKeywords)]
    /\ UNCHANGED <<ct, kw, ing, adv, trn>>

\* The except clause of process_live_context: the error is printed and the
\* segment goes on with matches = [].
LiveUncaught(r) ==
    [Failed(r, "exception in search", "uncaught") EXCEPT !.pc = "crashed", !.exit = 1]
LiveExcept(r) ==
    [LivePrintErr(Failed(r, "exception in search", "print_continue"),
                  <<"Search error", r.idx>>) EXCEPT !.pc = "emit", !.matches = <<>>]

\* embedding = get_embedding(text); the search follows if it is not empty.
LiveEmbed ==
    /\ live.pc = "embed"
    /\ \/ /\ ~live.OPENAI_API_KEY
          /\ live' = [LivePrintErr(Failed(live, "OPENAI_API_KEY missing", "print_continue"),
                                   <<"OPENAI_API_KEY not set", live.idx>>)
                         EXCEPT !.pc = "emit", !.matches = <<>>]
       \/ /\ live.OPENAI_API_KEY
          /\ \/ live' = LiveExcept(live)      \* import requests fails
             \/ \E status \in {"raises", "http_error", "bad_body"} :
                   live' = LiveExcept(LiveRequest(live, "embeddings", status))
             \/ \E empty \in BOOLEAN :
                   live' = [LiveRequest(live, "embeddings", "ok") EXCEPT
                               !.pc = IF empty THEN "emit" ELSE "search",
                               !.matches = <<>>]
    /\ UNCHANGED <<ct, kw, ing, adv, trn>>

\* semantic_search: the match_doc_chunks RPC.
LiveSearch ==
    /\ live.pc = "search"
    /\ \/ /\ ~live.SUPABASE
          /\ live' = [LivePrintErr(Failed(live, "credentials missing", "print_continue"),
                                   <<"Supabase credentials not set", live.idx>>)
                         EXCEPT !.pc = "emit", !.matches = <<>>]
       \/ /\ live.SUPABASE
          /\ \/ \E status \in {"raises", "bad_body"} :
                   live' = LiveExcept(LiveRequest(live, "rpc", status))
             \/ \E found \in MatchLists :
                   live' = [LiveRequest(live, "rpc", "200") EXCEPT
                               !.pc = "emit", !.matches = found]
             \/ live' = [LivePrintErr(Failed(LiveRequest(live, "rpc", "not_200"),
                                             "rpc status", "print_continue"),
                                      <<"RPC not available", live.idx>>)
                            EXCEPT !.pc = "fallback"]
    /\ UNCHANGED <<ct, kw, ing, adv, trn>>

\* fallback_search: the first top_n chunks of the table.
LiveFallback ==
    /\ live.pc = "fallback"
    /\ \/ \E status \in {"raises", "bad_body"} :
             live' = LiveExcept(LiveRequest(live, "fallback", status))
       \/ \E found \in MatchLists :
             live' = [LiveRequest(live, "fallback", "200") EXCEPT
                         !.pc = "emit", !.matches = found]
       \/ live' = [Failed(LiveRequest(live, "fallback", "not_200"),
                          "fallback status", "silent") EXCEPT
                      !.pc = "emit", !.matches = <<>>]
    /\ UNCHANGED <<ct, kw, ing, adv, trn>>

\* print(json.dumps(result)), and on to the next segment.
LiveEmit ==
    /\ live.pc = "emit"
    /\ live' = [live EXCEPT
                   !.stdout = Append(@, [segment |-> live.idx,
                                         text |-> live.segments[live.idx + 1],
                                         keywords |-> live.keywords,
                                         context_matches |-> live.matches]),
                   !.idx = @ + 1, !.pc = "loop"]
    /\ UNCHANGED <<ct, kw, ing, adv, trn>>

\* The loop is over: the script ends.
LiveEnd ==
    /\ live.pc = "loop"
    /\ ~(live.idx < Len(live.segments))
    /\ live' = [live EXCEPT !.pc = "done", !.exit = 0]
    /\ UNCHANGED <<ct, kw, ing, adv, trn>>

NextLive ==
    LiveMain \/ LiveLoad \/ LiveSegment \/ LiveEmbed \/ LiveSearch \/ LiveFallback
        \/ LiveEmit \/ LiveEnd

SpecLive == InitLive /\ [][NextLive]_vars

\* ============================================== live context script: claims

\* Statuses of a request that raise an exception in the script.
RaisingStatuses == {"raises", "http_error", "bad_body"}

\* The 0-based positions below k of the segments whose text is not blank.
NonBlankBelow(transcript, k) ==
    {j \in 0..(k - 1) : ~IsBlank(transcript[j + 1])}

\* C4: process_live_context prints one result per segment whose text is not
\* blank, in transcript order, and none for a blank one, whatever fails: with
\* the key missing, or a request of the segment raising, the result has the
\* segment's keywords and context_matches = [], and the loop goes on to the
\* end of the transcript.
C4_OneResultPerSegment ==
    live.pc \notin {"idle", "main", "load", "exited"} =>
        LET out == live.stdout
            t   == live.transcript
        IN  /\ live.pc # "crashed"
            /\ live.idx <= Len(t)
            /\ Len(out) = Cardinality(NonBlankBelow(t, live.idx))
            /\ \A k \in 1..Len(out) :
                 /\ out[k].segment \in NonBlankBelow(t, live.idx)
                 /\ \A j \in 1..(k - 1) : out[j].segment < out[k].segment
                 /\ out[k].text = t[out[k].segment + 1]
                 /\ out[k].keywords = extract_keywords(out[k].text, DefaultMaxKeywords)
                 /\ (\/ ~live.OPENAI_API_KEY
                     \/ \E q \in 1..Len(live.requests) :
                           /\ live.requests[q].seg = out[k].segment
                           /\ live.requests[q].status \in RaisingStatuses)
                       => out[k].context_matches = <<>>
            /\ live.pc = "done" => live.idx = Len(t)

\* The script has ended after two results: a request of the first segment
\* raised, and the second segment still got its matches.
C4_Witness ==
    /\ live.pc = "done"
    /\ Len(live.stdout) = 2
    /\ \E q \in 1..Len(live.requests) :
          /\ live.requests[q].seg = live.stdout[1].segment
          /\ live.requests[q].status \in RaisingStatuses
    /\ live.stdout[1].keywords # <<>>
    /\ live.stdout[1].context_matches = <<>>
    /\ live.stdout[2].context_matches # <<>>

\* ================================= adversarial_analysis.py (post-analysis)

\* Most segments of a transcript handed to the analysis.
MaxAdvSegments == 2

\* Most chunk contents the document store returns.
MaxDocChunks == 2

\* A transcript segment as loaded from JSON: any of the keys may be missing.
AdvSegs == {[speaker |-> "SPEAKER_00", text |-> <<"h","i">>, start |-> 1],
            [text |-> <<"o","k">>]}

AdvTranscripts == UNION {[1..n -> AdvSegs] : n \in 0..MaxAdvSegments}

\* Contents of the chunks of a document, in chunk_index order.
ChunkContents == {<<"x">>, <<"y","z">>}

DocStores == UNION {[1..n -> ChunkContents] : n \in 0..MaxDocChunks}

\* --doc_id: not given (None), given empty, or given.
DocIds == {"None", "", "doc-1"}

\* The response to the one GET of get_document_chunks, as the script sees it:
\* the status and the chunk contents read out of the body.
DocResponse(status, contents) == [status |-> status, contents |-> contents]

\* if doc_id is not None:
DocIdNotNone(doc_id) == doc_id # "None"

\* if doc_id:
DocIdGiven(doc_id) == doc_id \notin {"None", ""}

\* seg.get(key, default)
Get(seg, key, default) == IF key \in DOMAIN seg THEN seg[key] ELSE default

\* format_transcript: one line per segment, "[<start>s] <speaker>: <text>".
format_transcript(segments) ==
    [k \in 1..Len(segments) |->
        <<Get(segments[k], "start", 0), Get(segments[k], "speaker", "UNKNOWN"),
          Get(segments[k], "text", <<>>)>>]

AdvPrintErr(r, msg) == [r EXCEPT !.stderr = Append(@, msg)]

\* An exception nothing catches: the traceback, and the interpreter ends
\* with status 1.
AdvUncaught(r, what) ==
    [Failed(r, what, "uncaught") EXCEPT !.pc = "crashed", !.exit = 1]

InitAdv ==
    /\ ct = Idle /\ kw = Idle /\ ing = Idle /\ live = Idle /\ trn = Idle
    /\ \E key \in BOOLEAN, creds \in BOOLEAN, exists \in BOOLEAN,
          transcript \in AdvTranscripts, doc_id \in DocIds :
         adv = [pc |-> "main",
                OPENAI_API_KEY |-> key, SUPABASE |-> creds,
                transcript_exists |-> exists, transcript |-> transcript,
                doc_id |-> doc_id,
                segments |-> <<>>, transcript_text |-> <<>>,
                chunks |-> <<>>, doc_text |-> <<>>,
                results |-> [transcript_segments |-> 0, doc_chunks |-> 0,
                             analyses |-> <<>>],
                calls |-> <<>>, chat_requests |-> <<>>, doc_fetches |-> <<>>,
                failures |-> <<>>, stdout |-> <<>>, stderr |-> <<>>, exit |-> -1]

\* __main__: the transcript must exist.
AdvMain ==
    /\ adv.pc = "main"
    /\ adv' = IF adv.transcript_exists
              THEN [adv EXCEPT !.pc = "load"]
              ELSE [adv EXCEPT !.pc = "exited", !.exit = 1,
                               !.stdout = Append(@, <<"Transcript not found">>)]
    /\ UNCHANGED <<ct, kw, ing, live, trn>>

\* run_full_analysis: load and format the transcript.
AdvLoad ==
    /\ adv.pc = "load"
    /\ adv' = [AdvPrintErr(AdvPrintErr(adv, <<"Starting", 0>>),
                           <<"Loaded transcript segments", Len(adv.transcript)>>)
                  EXCEPT !.pc = "docs", !.segments = adv.transcript,
                         !.transcript_text = format_transcript(adv.transcript)]
    /\ UNCHANGED <<ct, kw, ing, live, trn>>

\* The rest of run_full_analysis once chunks are known: doc_text, the progress
\* line and the results dictionary.
AdvWithChunks(r, chunks) ==
    [AdvPrintErr(r, <<"Loaded document chunks", Len(chunks)>>) EXCEPT
        !.pc = "coherence", !.chunks = chunks,
        !.doc_text = Join(<<"\n", "\n">>, chunks),
        !.results = [transcript_segments |-> Len(r.segments),
                     doc_chunks |-> Len(chunks), analyses |-> <<>>]]

\* if doc_id: chunks = get_document_chunks(doc_id) ...; results = {...}
AdvDocs ==
    /\ adv.pc = "docs"
    /\ \/ /\ ~DocIdGiven(adv.doc_id)
          /\ adv' = [adv EXCEPT !.pc = "coherence", !.doc_text = <<>>,
                        !.results = [transcript_segments |-> Len(adv.segments),
                                     doc_chunks |-> 0, analyses |-> <<>>]]
       \/ /\ DocIdGiven(adv.doc_id)
          /\ ~adv.SUPABASE
          /\ adv' = AdvWithChunks(Failed(adv, "credentials missing", "silent"), <<>>)
       \/ /\ DocIdGiven(adv.doc_id)
          /\ adv.SUPABASE
          /\ \/ adv' = AdvUncaught(adv, "requests missing")
             \/ \E status \in {"raises", "bad_body"} :
                   adv' = AdvUncaught([adv EXCEPT !.doc_fetches =
                                                    Append(@, DocResponse(status, <<>>))],
                                      "document fetch raised")
             \/ \E stored \in DocStores :
                   adv' = AdvWithChunks([adv EXCEPT !.doc_fetches =
                                                      Append(@, DocResponse("200", stored))],
                                        stored)
             \/ adv' = AdvWithChunks(
                          Failed([adv EXCEPT !.doc_fetches =
                                            Append(@, DocResponse("not_200", <<>>))],
                                      "document fetch status", "silent"), <<>>)
    /\ UNCHANGED <<ct, kw, ing, live, trn>>

\* One of the three analyses: the prompt is built, call_openai is called once
\* and its result is appended under the analysis type.
AdvAnalysis(stage, type, doc_text, next) ==
    /\ adv.pc = stage
    /\ LET r == [AdvPrintErr(adv, <<"Running", type>>) EXCEPT
                    !.calls = Append(@, [type |-> type,
                                         transcript_text |-> adv.transcript_text,
                                         doc_text |-> doc_text])]
           done(rr, analysis) ==
               [rr EXCEPT !.pc = next,
                          !.results.analyses = Append(@, [type |-> type, analysis |-> analysis])]
       IN  \/ /\ ~adv.OPENAI_API_KEY
              /\ adv' = done(Failed(r, "OPENAI_API_KEY missing", "print_continue"),
                             <<"OPENAI_API_KEY not set", 0>>)
           \/ /\ adv.OPENAI_API_KEY
              /\ \/ adv' = AdvUncaught(r, "requests missing")
                 \/ \E status \in {"raises", "http_error", "bad_body"} :
                       adv' = AdvUncaught(
                                 [r EXCEPT !.chat_requests = Append(@, [type |-> type, status |-> status])],
                                 "chat completion raised")
                 \/ LET sent == [r EXCEPT !.chat_requests = Append(@, [type |-> type, status |-> "ok"])]
                    IN  \* the content of the answer to this request
                        adv' = done(sent, <<"content", Len(sent.chat_requests)>>)
    /\ UNCHANGED <<ct, kw, ing, live, trn>>

AdvCoherence == AdvAnalysis("coherence", "coherence", adv.doc_text, "tone")
AdvToneSkipsSummary == AdvAnalysis("tone", "tone_deception", <<>>, "report")
AdvTone == AdvAnalysis("tone", "tone_deception", <<>>, "summary")
AdvSummary == AdvAnalysis("summary", "adversarial_summary", adv.doc_text, "report")

\* print(json.dumps(results, indent=2))
AdvReport ==
    /\ adv.pc = "report"
    /\ adv' = [AdvPrintErr(adv, <<"Complete", 0>>) EXCEPT
                  !.pc = "done", !.exit = 0, !.stdout = Append(@, adv.results)]
    /\ UNCHANGED <<ct, kw, ing, live, trn>>

NextAdv == AdvMain \/ AdvLoad \/ AdvDocs \/ AdvCoherence \/ AdvTone \/ AdvSummary \/ AdvReport

SpecAdv == InitAdv /\ [][NextAdv]_vars

\* ================================================ analysis script: claims

AnalysisTypes == <<"coherence", "tone_deception", "adversarial_summary">>

\* C5: a printed report has exactly three analyses, of types coherence,
\* tone_deception and adversarial_summary in that order, each the result of
\* one call of call_openai made in that order: the content of that call's
\* chat-completion request, or the error string when OPENAI_API_KEY is
\* missing; and so for every doc_id.
C5_ThreeAnalysesInOrder ==
    (adv.pc # "idle" /\ adv.stdout # <<>> /\ adv.pc # "exited") =>
        LET a == adv.stdout[1].analyses
        IN  /\ adv.pc = "done" /\ Len(adv.stdout) = 1
            /\ Len(a) = 3
            /\ Len(adv.calls) = 3
            /\ \A k \in 1..3 :
                 /\ a[k].type = AnalysisTypes[k]
                 /\ adv.calls[k].type = AnalysisTypes[k]
            /\ IF adv.OPENAI_API_KEY
               THEN /\ Len(adv.chat_requests) = 3
                    /\ \A k \in 1..3 :
                         /\ adv.chat_requests[k] = [type |-> AnalysisTypes[k], status |-> "ok"]
                         /\ a[k].analysis = <<"content", k>>
               ELSE /\ adv.chat_requests = <<>>
                    /\ \A k \in 1..3 : a[k].analysis = <<"OPENAI_API_KEY not set", 0>>

\* A report printed with the key missing and a doc_id given.
C5_Witness ==
    /\ adv.pc = "done"
    /\ Len(adv.stdout) = 1
    /\ ~adv.OPENAI_API_KEY
    /\ DocIdGiven(adv.doc_id)
    /\ Len(adv.stdout[1].analyses) = 3

\* The contents joined by blank lines, character by character.
RECURSIVE BlankLineJoined(_)
BlankLineJoined(contents) ==
    IF contents = <<>> THEN <<>>
    ELSE IF Len(contents) = 1 THEN contents[1]
    ELSE contents[1] \o <<"\n", "\n">> \o BlankLineJoined(Tail(contents))

\* The chunk contents the document store has handed to the script: those of
\* the response with status 200, none otherwise.
ContentsReturned ==
    IF adv.doc_fetches # <<>> /\ adv.doc_fetches[1].status = "200"
    THEN adv.doc_fetches[1].contents
    ELSE <<>>

\* The reference-document text of every analysis run so far is this text
\* (the tone analysis takes no reference text).
ReferenceTextIs(text) ==
    /\ adv.doc_text = text
    /\ \A k \in 1..Len(adv.calls) :
         adv.calls[k].doc_text = IF adv.calls[k].type = "tone_deception" THEN <<>> ELSE text

\* C11: document chunks are optional. With no doc_id, or an empty one, the
\* script never sends a request to the document store, reports doc_chunks = 0
\* and runs the analyses with an empty reference text. With a doc_id, once
\* the chunks are loaded, there was exactly one fetch if the credentials are
\* set and none if they are missing, doc_chunks is the number of contents
\* that fetch returned (0 with missing credentials or a status other than
\* 200), and the reference text is those contents, in the order returned,
\* joined by blank lines.
C11_DocChunksOptional ==
    adv.pc # "idle" =>
        /\ adv.doc_id \in {"None", ""} =>
              /\ adv.doc_fetches = <<>>
              /\ adv.results.doc_chunks = 0
              /\ ReferenceTextIs(<<>>)
              /\ adv.pc = "done" => adv.stdout[1].doc_chunks = 0
        /\ (adv.doc_id \notin {"None", ""} /\ adv.calls # <<>>) =>
              /\ Len(adv.doc_fetches) = (IF adv.SUPABASE THEN 1 ELSE 0)
              /\ adv.doc_fetches # <<>> => adv.doc_fetches[1].status \in {"200", "not_200"}
              /\ adv.results.doc_chunks = Len(ContentsReturned)
              /\ ReferenceTextIs(BlankLineJoined(ContentsReturned))
              /\ adv.pc = "done" => adv.stdout[1].doc_chunks = Len(ContentsReturned)

\* A report printed for a doc_id whose fetch returned two chunks, the second
\* of them first in the store's order.
C11_Witness ==
    /\ adv.pc = "done"
    /\ adv.doc_id = "doc-1"
    /\ Len(adv.doc_fetches) = 1
    /\ adv.doc_fetches[1] = DocResponse("200", <<<<"y", "z">>, <<"x">>>>)
    /\ adv.stdout[1].doc_chunks = 2
    /\ adv.doc_text = <<"y", "z", "\n", "\n", "x">>
    /\ Len(adv.calls) = 3

\* A report printed with no doc_id: no request went to the document store.
C11_WitnessNoDocId ==
    /\ adv.pc = "done"
    /\ adv.doc_id = ""
    /\ adv.SUPABASE
    /\ adv.doc_fetches = <<>>
    /\ adv.stdout[1].doc_chunks = 0

\* ======================================= transcribe_diarize.py (transcription)

\* Most segments the speech model returns.
MaxRawSegments == 2

\* Whitespace removed at both ends: text.strip().
RECURSIVE Strip(_)
Strip(text) ==
    IF text = <<>> THEN text
    ELSE IF IsSpace(Head(text)) THEN Strip(Tail(text))
    ELSE IF IsSpace(text[Len(text)]) THEN Strip(SubSeq(text, 1, Len(text) - 1))
    ELSE text

\* round(x, 2) of a time given in thousandths of a second, in hundredths
\* (the times used are no ties).
Round2(ms) == (ms + 5) \div 10

\* A segment of the speech model's result; any key may be missing.  The
\* aligned WhisperX segments carry no speaker before diarization.
RawSegs == {[start |-> 1234, end |-> 2468, text |-> <<" ","h","i"," ">>],
            [text |-> <<"o","k">>]}

RawResults == UNION {[1..n -> RawSegs] : n \in 0..MaxRawSegments}

Speakers == {"SPEAKER_00", "SPEAKER_01"}

\* The label of a segment no speaker was assigned to.
UnknownSpeaker == "UNKNOWN"
DefaultSpeaker == "SPEAKER_00"

\* The output entry of a WhisperX segment.
WhisperXEntry(seg) ==
    [start |-> Round2(Get(seg, "start", 0)), end |-> Round2(Get(seg, "end", 0)),
     speaker |-> Get(seg, "speaker", DefaultSpeaker),
     text |-> Strip(Get(seg, "text", <<>>))]

\* The output entry of a basic whisper segment: no diarization.
WhisperEntry(seg) ==
    [start |-> Round2(Get(seg, "start", 0)), end |-> Round2(Get(seg, "end", 0)),
     speaker |-> "SPEAKER_00",
     text |-> Strip(Get(seg, "text", <<>>))]

\* whisperx.assign_word_speakers: some segments get a speaker, some do not.
Diarizations(segments) ==
    {[k \in 1..Len(segments) |->
         IF who[k] = "none" THEN segments[k]
         ELSE [key \in DOMAIN segments[k] \cup {"speaker"} |->
                  IF key = "speaker" THEN who[k] ELSE segments[k][key]]] :
     who \in [1..Len(segments) -> Speakers \cup {"none"}]}

TrnPrint(r, msg) == [r EXCEPT !.stdout = Append(@, msg)]

\* json.dump({"segments": transcript}, f): the file is opened for writing and
\* the transcript written.
TrnWrite(r, by, transcript) ==
    [TrnPrint(r, "Transcript saved") EXCEPT
        !.pc = "done", !.exit = 0, !.file = <<[segments |-> transcript]>>,
        !.writes = Append(@, by)]

\* except ImportError of the WhisperX block: on to basic whisper.
TrnFallBack(r) ==
    [TrnPrint(Failed(r, "whisperx missing", "print_continue"), "WhisperX not available") EXCEPT
        !.pc = "whisper_import", !.whisperx_import_error = TRUE]

\* except ImportError of the basic whisper block.
TrnNoLibrary(r) ==
    [TrnPrint(Failed(r, "whisper missing", "print_exit"),
              "Neither whisperx nor whisper is installed")
        EXCEPT !.pc = "exited", !.exit = 1]

\* Any other exception of a speech library (a model that does not load, an
\* audio file it cannot read): nothing catches it.
TrnUncaught(r) == [r EXCEPT !.pc = "crashed", !.exit = 1]

InitTrn ==
    /\ ct = Idle /\ kw = Idle /\ ing = Idle /\ live = Idle /\ adv = Idle
    /\ \E exists \in BOOLEAN, token \in BOOLEAN, raw \in RawResults :
         trn = [pc |-> "main", audio_exists |-> exists, hf_token |-> token,
                raw |-> raw,                \* what the speech model hears
                result |-> <<>>, whisperx_import_error |-> FALSE,
                file |-> <<>>,              \* the output file: absent, or its one object
                writes |-> <<>>, failures |-> <<>>, stdout |-> <<>>, exit |-> -1]

\* __main__: the audio file must exist.
TrnMain ==
    /\ trn.pc = "main"
    /\ trn' = IF trn.audio_exists
              THEN [trn EXCEPT !.pc = "whisperx_import"]
              ELSE [TrnPrint(trn, "Audio file not found") EXCEPT !.pc = "exited", !.exit = 1]
    /\ UNCHANGED <<ct, kw, ing, live, adv>>

\* import whisperx; import torch
TrnImportWhisperX ==
    /\ trn.pc = "whisperx_import"
    /\ \/ trn' = [trn EXCEPT !.pc = "whisperx_transcribe"]
       \/ trn' = TrnFallBack(trn)
    /\ UNCHANGED <<ct, kw, ing, live, adv>>

\* load_model, load_audio, transcribe, load_align_model, align.  A module the
\* library imports only now may be missing.
TrnWhisperXTranscribe ==
    /\ trn.pc = "whisperx_transcribe"
    /\ \/ trn' = [TrnPrint(TrnPrint(TrnPrint(trn, "Loading WhisperX model"), "Transcribing"),
                           "Aligning transcript")
                     EXCEPT !.pc = "whisperx_diarize", !.result = trn.raw]
       \/ trn' = TrnFallBack(TrnPrint(trn, "Loading WhisperX model"))
       \/ trn' = TrnUncaught(TrnPrint(trn, "Loading WhisperX model"))
    /\ UNCHANGED <<ct, kw, ing, live, adv>>

\* if hf_token: diarize and assign speakers.
TrnDiarize ==
    /\ trn.pc = "whisperx_diarize"
    /\ \/ /\ ~trn.hf_token
          /\ trn' = [trn EXCEPT !.pc = "whisperx_write"]
       \/ /\ trn.hf_token
          /\ LET r == TrnPrint(trn, "Performing speaker diarization")
             IN  \/ \E assigned \in Diarizations(trn.result) :
                       trn' = [r EXCEPT !.pc = "whisperx_write", !.result = assigned]
                 \/ trn' = TrnFallBack(r)
                 \/ trn' = TrnUncaught(r)
    /\ UNCHANGED <<ct, kw, ing, live, adv>>

\* Format the output and write it.
TrnWhisperXWrite ==
    /\ trn.pc = "whisperx_write"
    /\ trn' = TrnWrite(trn, "whisperx",
                       [k \in 1..Len(trn.result) |-> WhisperXEntry(trn.result[k])])
    /\ UNCHANGED <<ct, kw, ing, live, adv>>

\* import whisper
TrnImportWhisper ==
    /\ trn.pc = "whisper_import"
    /\ \/ trn' = [trn EXCEPT !.pc = "whisper_transcribe"]
       \/ trn' = TrnNoLibrary(trn)
    /\ UNCHANGED <<ct, kw, ing, live, adv>>

\* load_model and transcribe of basic whisper.
TrnWhisperTranscribe ==
    /\ trn.pc = "whisper_transcribe"
    /\ \/ trn' = [TrnPrint(TrnPrint(trn, "Loading Whisper model"), "Transcribing")
                     EXCEPT !.pc = "whisper_write", !.result = trn.raw]
       \/ trn' = TrnNoLibrary(TrnPrint(trn, "Loading Whisper model"))
       \/ trn' = TrnUncaught(TrnPrint(trn, "Loading Whisper model"))
    /\ UNCHANGED <<ct, kw, ing, live, adv>>

TrnWhisperWrite ==
    /\ trn.pc = "whisper_write"
    /\ trn' = TrnWrite(trn, "whisper",
                       [k \in 1..Len(trn.result) |-> WhisperEntry(trn.result[k])])
    /\ UNCHANGED <<ct, kw, ing, live, adv>>

NextTrn ==
    TrnMain \/ TrnImportWhisperX \/ TrnWhisperXTranscribe \/ TrnDiarize
        \/ TrnWhisperXWrite \/ TrnImportWhisper \/ TrnWhisperTranscribe
        \/ TrnWhisperWrite

SpecTrn == InitTrn /\ [][NextTrn]_vars

\* ============================================ transcription script: claims

OutputKeys == {"start", "end", "speaker", "text"}

\* C9: the output file is written at most once, as an object whose segments
\* all have start, end, speaker and text; basic whisper runs only after the
\* WhisperX block raised ImportError with nothing written, and then every
\* speaker is SPEAKER_00; a WhisperX segment without a speaker gets
\* SPEAKER_00; with both libraries unavailable the script ends with status 1
\* and no output file.
C9_TranscriptWrittenOnce ==
    trn.pc # "idle" =>
        /\ Len(trn.writes) <= 1
        /\ trn.file # <<>> =>
             /\ Len(trn.writes) = 1 /\ Len(trn.file) = 1
             /\ DOMAIN trn.file[1] = {"segments"}
             /\ Len(trn.file[1].segments) = Len(trn.result)
             /\ \A k \in 1..Len(trn.file[1].segments) :
                  DOMAIN trn.file[1].segments[k] = OutputKeys
        /\ (trn.pc \in {"whisper_import", "whisper_transcribe", "whisper_write"}
              \/ trn.writes = <<"whisper">>)
             => trn.whisperx_import_error
        /\ trn.whisperx_import_error => trn.writes \in {<<>>, <<"whisper">>}
        /\ trn.writes = <<"whisper">> =>
             \A k \in 1..Len(trn.file[1].segments) :
                 trn.file[1].segments[k].speaker = "SPEAKER_00"
        /\ trn.writes = <<"whisperx">> =>
             \A k \in 1..Len(trn.file[1].segments) :
                 trn.file[1].segments[k].speaker =
                     IF "speaker" \in DOMAIN trn.result[k]
                     THEN trn.result[k].speaker ELSE "SPEAKER_00"
        /\ (\E k \in 1..Len(trn.stdout) :
               trn.stdout[k] = "Neither whisperx nor whisper is installed")
             => trn.pc = "exited" /\ trn.exit = 1 /\ trn.file = <<>>

\* WhisperX wrote a transcript of two segments, one with the speaker the
\* diarization assigned and one without an assigned speaker.
C9_Witness ==
    /\ trn.pc = "done"
    /\ trn.writes = <<"whisperx">>
    /\ Len(trn.result) = 2
    /\ "speaker" \in DOMAIN trn.result[1]
    /\ trn.file[1].segments[1].speaker = "SPEAKER_01"
    /\ "speaker" \notin DOMAIN trn.result[2]
    /\ trn.file[1].segments[2].speaker = "SPEAKER_00"

\* ============================================================ all scripts

\* Any one of the four scripts, run on its own.
InitScripts == InitIng \/ InitLive \/ InitAdv \/ InitTrn

NextScripts == NextIng \/ NextLive \/ NextAdv \/ NextTrn

SpecScripts == InitScripts /\ [][NextScripts]_vars

\* ========================================================= claims on all

\* No failure a script has met went through it as an uncaught exception.
NoneUncaught(r) ==
    r.pc # "idle" =>
        \A k \in 1..Len(r.failures) : r.failures[k].handling # "uncaught"

\* C6, its clause on exceptions: in all four scripts no failure of an
\* external dependency (missing credential or key, non-success status,
\* exception of a request, missing library) escapes as an uncaught exception:
\* each ends in a printed message and exit status 1, or in a printed message
\* and the script going on.
C6_NoUncaughtException ==
    /\ NoneUncaught(ing) /\ NoneUncaught(live) /\ NoneUncaught(adv) /\ NoneUncaught(trn)
    /\ ing.pc # "crashed" /\ live.pc # "crashed" /\ adv.pc # "crashed"

\* Requests of the live context script of one kind for one segment.
LiveRequestsOf(s, kind) ==
    {q \in 1..Len(live.requests) :
        live.requests[q].seg = s /\ live.requests[q].kind = kind}

\* No retry in the live context script: per segment at most one request of
\* each kind, none for a blank segment, and a fallback query only right after
\* the RPC request of the same segment came back with a status other than 200.
LiveNoRetry ==
    live.pc # "idle" =>
        /\ \A s \in 0..(Len(live.transcript) - 1) :
             \A kind \in {"embeddings", "rpc", "fallback"} :
                 /\ Cardinality(LiveRequestsOf(s, kind)) <= 1
                 /\ IsBlank(live.transcript[s + 1]) => LiveRequestsOf(s, kind) = {}
        /\ \A q \in 1..Len(live.requests) :
             /\ live.requests[q].seg \in 0..(Len(live.transcript) - 1)
             /\ live.requests[q].kind = "fallback" =>
                  /\ q > 1
                  /\ live.requests[q - 1] =
                        [seg |-> live.requests[q].seg, kind |-> "rpc", status |-> "not_200"]

\* No retry of an insert: at most one insert request per chunk index.
IngInsertsOncePerIndex ==
    ing.pc # "idle" =>
        \A a, b \in 1..Len(ing.inserts) :
            a # b => ing.inserts[a].chunk_index # ing.inserts[b].chunk_index

\* No retry in the analysis script: at most one document fetch and at most
\* three chat-completion requests.
AdvNoRetry ==
    adv.pc # "idle" => Len(adv.doc_fetches) <= 1 /\ Len(adv.chat_requests) <= 3

\* C7 as stated, read for the runs that get to the embeddings stage: no
\* script retries a request, and the ingestion script has issued exactly one
\* embeddings request when such a run ends.
C7_NoRetryExactlyOneEmbedding ==
    /\ LiveNoRetry /\ IngInsertsOncePerIndex /\ AdvNoRetry
    /\ ing.pc # "idle" => ing.emb_requests <= 1
    /\ (ing.pc \in {"done", "exited"} /\ Printed(ing.stderr, "Generating embeddings"))
         => ing.emb_requests = 1

\* C7 as amended: no script retries a request; the ingestion script issues at
\* most one embeddings request in any run, and exactly one in every run that
\* reaches the store stage.
C7_NoRetry ==
    /\ LiveNoRetry /\ IngInsertsOncePerIndex /\ AdvNoRetry
    /\ ing.pc # "idle" => ing.emb_requests <= 1
    /\ ing.pc \in {"store", "store_loop", "report", "done"} => ing.emb_requests = 1
    /\ (ing.pc # "idle" /\ ing.inserts # <<>>) => ing.emb_requests = 1

\* The ingestion script has ended after one embeddings request and three
\* inserts, one of them refused.
C7_Witness ==
    /\ ing.pc = "done"
    /\ ing.emb_requests = 1
    /\ Len(ing.inserts) = 3
    /\ \E a \in 1..3 : ~InsertAccepted(ing.inserts[a].status)


\* ================================================ chunk_text: termination

\* chunks = chunk_text(text) in ingest_document: the defaults, on the
\* documents of DocWordCounts words.
InitChunkDefaults ==
    /\ kw = Idle /\ ing = Idle /\ live = Idle /\ adv = Idle /\ trn = Idle
    /\ \E n \in DocWordCounts :
         ct = [pc |-> "call", text |-> DocText(n),
               chunk_size |-> DefaultChunkSize, overlap |-> DefaultOverlap,
               words |-> <<>>, chunks |-> <<>>, start |-> 0]

InitChunkTerm == InitChunk \/ InitChunkDefaults

\* A call of chunk_text runs on its own: a step that can be taken is taken.
SpecChunkTerm == InitChunkTerm /\ [][NextChunk]_vars /\ WF_vars(NextChunk)

\* An iteration of the loop moves start forward by chunk_size - overlap > 0.
ChunkStartIncreases ==
    (ct.pc = "loop" /\ ct'.pc = "loop") =>
        /\ ct.chunk_size - ct.overlap > 0
        /\ ct'.start = ct.start + (ct.chunk_size - ct.overlap)
        /\ ct'.start > ct.start
        /\ Len(ct'.chunks) = Len(ct.chunks) + 1

\* The iterations run so far are bounded by the number of words: start is
\* the number of iterations times the stride, the iteration before the last
\* one began inside the words, and the loop is left only with start at or
\* past the number of words.
ChunkIterationsBounded ==
    ct.pc \in {"loop", "done"} =>
        LET stride == ct.chunk_size - ct.overlap
        IN  /\ ct.start = Len(ct.chunks) * stride
            /\ Len(ct.chunks) <= CeilDiv(Len(ct.words), stride)
            /\ Len(ct.chunks) <= Len(ct.words)
            /\ ct.pc = "done" => ct.start >= Len(ct.words)

\* C12: chunk_text terminates on every text for every chunk_size and overlap
\* with 0 <= overlap < chunk_size, the defaults 500 and 50 of ingest_document
\* among them: each iteration increases start by chunk_size - overlap > 0,
\* the number of iterations is bounded by the number of words, and every
\* call returns, then with start >= number of words.
C12_ChunkTextTerminates ==
    /\ [][ChunkStartIncreases]_vars
    /\ [](ChunkIterationsBounded)
    /\ <>(ct.pc = "done")

\* A call with the defaults has returned after three iterations.
C12_Witness ==
    /\ ct.pc = "done"
    /\ ct.chunk_size = DefaultChunkSize /\ ct.overlap = DefaultOverlap
    /\ Len(ct.words) = 901
    /\ Len(ct.chunks) = 3
    /\ ct.start = 1350

====
